---- MODULE Spec2Model ----
(***************************************************************************)
(* The user-management command line of src/app/cli.py: eight commands over *)
(* one "user" table, each run inside a scoped session.                     *)
(*                                                                         *)
(* Strings are sequences of one-character strings, so that LIKE matching   *)
(* and substring search are computed character by character.  A row is a   *)
(* record [username, email, password]; the table is the sequence of rows   *)
(* in the store's row order.  The surrogate id is assigned by the store    *)
(* and is read by no command's logic, so it is not carried.                *)
(***************************************************************************)
EXTENDS Integers, Sequences, FiniteSets, TLC

VARIABLES
    table,      \* the user table: rows in the store's row order
    before,     \* the table as it was when the last command started
    cmd,        \* the last command and its arguments
    out,        \* what the last command printed: [kind, users]
    raised,     \* the exception that escaped the last command, or "none"
    initial,    \* concurrent runs: the table before either process started
    pc,         \* concurrent runs: each process's position in its command
    job,        \* concurrent runs: each process's command and arguments
    sess,       \* concurrent runs: each process's session
    res         \* concurrent runs: what each process printed or raised

vars == <<table, before, cmd, out, raised, initial, pc, job, sess, res>>

seqVars == <<before, cmd, out, raised>>
raceVars == <<initial, pc, job, sess, res>>

-----------------------------------------------------------------------------
(* Bounds of the model. *)

MaxRows == 2
MaxLimit == 2
MaxOffset == 2
MaxSeed == 5

(* Program constants. *)

DefaultLimit == 10
DefaultOffset == 0

-----------------------------------------------------------------------------
(* Strings. *)

bob == <<"b", "o", "b">>
bob_mail == <<"b", "o", "b", "@", "m", "a", "i", "l", ".", "c", "o", "m">>
bobpass == <<"b", "o", "b", "p", "a", "s", "s">>

name_a == <<"a">>
name_b == <<"b">>
mail_a == <<"a", "@", "x", ".", "c", "o", "m">>
mail_b == <<"b", "@", "x", ".", "c", "o", "m">>
pass_p == <<"p">>

Usernames == {bob, name_a, name_b}
Emails == {bob_mail, mail_a, mail_b}
Passwords == {bobpass, pass_p}

Queries == { <<>>, <<"x", ".", "c", "o", "m">>, <<"o">>, <<"B">>, <<"_">>,
             <<"b", "%", "m">> }

Limits == (-1 .. MaxLimit) \cup {DefaultLimit}
Offsets == (-1 .. MaxOffset) \cup {DefaultOffset}

ToLower == [A |-> "a", B |-> "b", C |-> "c", D |-> "d", E |-> "e", F |-> "f",
            G |-> "g", H |-> "h", I |-> "i", J |-> "j", K |-> "k", L |-> "l",
            M |-> "m", N |-> "n", O |-> "o", P |-> "p", Q |-> "q", R |-> "r",
            S |-> "s", T |-> "t", U |-> "u", V |-> "v", W |-> "w", X |-> "x",
            Y |-> "y", Z |-> "z"]

Fold(c) == IF c \in DOMAIN ToLower THEN ToLower[c] ELSE c

SameChar(c, d, folds) == IF folds THEN Fold(c) = Fold(d) ELSE c = d

(* s LIKE p: "%" matches any run of characters, "_" any one character,     *)
(* every other character itself (ASCII letters without regard to case     *)
(* when the store's LIKE folds case).                                      *)
RECURSIVE Like(_, _, _)
Like(s, p, folds) ==
    IF p = <<>> THEN s = <<>>
    ELSE IF Head(p) = "%"
         THEN Like(s, Tail(p), folds) \/ (s # <<>> /\ Like(Tail(s), p, folds))
    ELSE IF s = <<>> THEN FALSE
    ELSE IF Head(p) = "_" THEN Like(Tail(s), Tail(p), folds)
    ELSE SameChar(Head(s), Head(p), folds) /\ Like(Tail(s), Tail(p), folds)

(* column.contains(q) renders as  column LIKE '%' || q || '%'  with the    *)
(* wildcards of q left unescaped.                                          *)
contains(s, q, folds) == Like(s, <<"%">> \o q \o <<"%">>, folds)

(* q occurs in s as a literal, case-sensitive substring. *)
Substring(s, q) ==
    \E i \in 0 .. (Len(s) - Len(q)) : SubSeq(s, i + 1, i + Len(q)) = q

-----------------------------------------------------------------------------
(* The store. *)

User(username, email, password) ==
    [username |-> username, email |-> email, password |-> password]

(* Both columns are declared unique. *)
Unique(t) ==
    \A i, j \in 1 .. Len(t) :
        i # j => t[i].username # t[j].username /\ t[i].email # t[j].email

(* Mutant: only the username column is declared unique. *)
InsertConflict_username_only(t, r) ==
    \E i \in 1 .. Len(t) : t[i].username = r.username

(* INSERT of r is rejected when a row holds its username or its email. *)
InsertConflict(t, r) ==
    \E i \in 1 .. Len(t) : t[i].username = r.username \/ t[i].email = r.email

(* UPDATE of row i to r is rejected when another row holds r's username or email. *)
UpdateConflict(t, i, r) ==
    \E j \in 1 .. Len(t) :
        j # i /\ (t[j].username = r.username \/ t[j].email = r.email)

drop_all(t) == <<>>

create_db_and_tables(t) == t

(* The positions of the rows an exact-match username lookup selects. *)
WhereUsername(t, username) == {i \in 1 .. Len(t) : t[i].username = username}

First(S) == CHOOSE i \in S : \A j \in S : i <= j

RemoveAt(t, i) == SubSeq(t, 1, i - 1) \o SubSeq(t, i + 1, Len(t))

Min(a, b) == IF a <= b THEN a ELSE b

-----------------------------------------------------------------------------
(* The commands as functions of the table: each yields the table it        *)
(* leaves, what it prints and the exception that escapes it.               *)

Outcome(t, kind, users, exc) ==
    [table |-> t, out |-> [kind |-> kind, users |-> users], raised |-> exc]

Raise(t, exc) == Outcome(t, "traceback", <<>>, exc)

(* Mutant: the tables are not dropped before the seed user is added. *)
initialize_keep(t) ==
    LET fresh == create_db_and_tables(t)
        seed == User(bob, bob_mail, bobpass)
    IN  IF InsertConflict(fresh, seed)
        THEN Raise(fresh, "IntegrityError")
        ELSE Outcome(Append(fresh, seed), "initialized", <<>>, "none")

initialize(t) ==
    LET fresh == create_db_and_tables(drop_all(t))
        seed == User(bob, bob_mail, bobpass)
    IN  IF InsertConflict(fresh, seed)
        THEN Raise(fresh, "IntegrityError")
        ELSE Outcome(Append(fresh, seed), "initialized", <<>>, "none")

(* Mutant: the lookup demands a row (.one() in place of .first()). *)
get_user_one(t, username) ==
    LET hits == WhereUsername(t, username)
    IN  IF hits = {}
        THEN Raise(t, "NoResultFound")
        ELSE Outcome(t, "user", <<t[First(hits)]>>, "none")

get_user(t, username) ==
    LET hits == WhereUsername(t, username)
    IN  IF hits = {}
        THEN Outcome(t, "get_user: not found", <<>>, "none")
        ELSE Outcome(t, "user", <<t[First(hits)]>>, "none")

get_all_users(t) ==
    IF t = <<>>
    THEN Outcome(t, "No users found", <<>>, "none")
    ELSE Outcome(t, "users", t, "none")

(* Mutant: the new email is set on the object and never committed. *)
change_email_uncommitted(t, username, new_email) ==
    LET hits == WhereUsername(t, username)
    IN  IF hits = {}
        THEN Outcome(t, "change_email: not found", <<>>, "none")
        ELSE Outcome(t, "updated",
                     <<[t[First(hits)] EXCEPT !.email = new_email]>>, "none")

change_email(t, username, new_email) ==
    LET hits == WhereUsername(t, username)
    IN  IF hits = {}
        THEN Outcome(t, "change_email: not found", <<>>, "none")
        ELSE LET i == First(hits)
                 user == [t[i] EXCEPT !.email = new_email]
             IN  IF UpdateConflict(t, i, user)
                 THEN Raise(t, "IntegrityError")
                 ELSE Outcome([t EXCEPT ![i] = user], "updated", <<user>>, "none")

(* Mutant: the IntegrityError of the commit is not caught. *)
create_user_unhandled(t, username, email, password) ==
    LET newuser == User(username, email, password)
    IN  IF InsertConflict(t, newuser)
        THEN Raise(t, "IntegrityError")
        ELSE Outcome(Append(t, newuser), "created", <<newuser>>, "none")

create_user(t, username, email, password) ==
    LET newuser == User(username, email, password)
    IN  IF InsertConflict(t, newuser)
        THEN Outcome(t, "already taken", <<>>, "none")
        ELSE Outcome(Append(t, newuser), "created", <<newuser>>, "none")

(* Mutant: the row is marked for deletion and never committed. *)
delete_user_uncommitted(t, username) ==
    LET hits == WhereUsername(t, username)
    IN  IF hits = {}
        THEN Outcome(t, "delete_user: not found", <<>>, "none")
        ELSE Outcome(t, "deleted", <<>>, "none")

delete_user(t, username) ==
    LET hits == WhereUsername(t, username)
    IN  IF hits = {}
        THEN Outcome(t, "delete_user: not found", <<>>, "none")
        ELSE Outcome(RemoveAt(t, First(hits)), "deleted", <<>>, "none")

search_users(t, query, folds) ==
    LET Match(r) == contains(r.username, query, folds)
                        \/ contains(r.email, query, folds)
        users == SelectSeq(t, Match)
    IN  IF users = <<>>
        THEN Outcome(t, "no match", <<>>, "none")
        ELSE Outcome(t, "matches", users, "none")

(* Mutant: limit and offset are passed in each other's place. *)
list_users_swapped(t, limit, offset, rejects) ==
    IF (limit < 0 \/ offset < 0) /\ rejects
    THEN Raise(t, "DBAPIError")
    ELSE LET skip == IF limit < 0 THEN 0 ELSE limit
             last == IF offset < 0 THEN Len(t) ELSE Min(Len(t), skip + offset)
             users == SubSeq(t, skip + 1, last)
         IN  IF users = <<>>
             THEN Outcome(t, "No users found.", <<>>, "none")
             ELSE Outcome(t, "page", users, "none")

(* SELECT ... LIMIT limit OFFSET offset.  A negative LIMIT or OFFSET is    *)
(* passed to the store as given: a store either rejects the statement or   *)
(* reads a negative LIMIT as no limit and a negative OFFSET as 0.          *)
list_users(t, limit, offset, rejects) ==
    IF (limit < 0 \/ offset < 0) /\ rejects
    THEN Raise(t, "DBAPIError")
    ELSE LET skip == IF offset < 0 THEN 0 ELSE offset
             last == IF limit < 0 THEN Len(t) ELSE Min(Len(t), skip + limit)
             users == SubSeq(t, skip + 1, last)
         IN  IF users = <<>>
             THEN Outcome(t, "No users found.", <<>>, "none")
             ELSE Outcome(t, "page", users, "none")

-----------------------------------------------------------------------------
(* The command line run one command at a time: each action is one process   *)
(* invocation, from the acquisition of its session to its release.         *)

Command(name) ==
    [name |-> name, username |-> <<>>, email |-> <<>>, password |-> <<>>,
     query |-> <<>>, limit |-> DefaultLimit, offset |-> DefaultOffset]

Run(c, r) ==
    /\ before' = table
    /\ cmd' = c
    /\ table' = r.table
    /\ out' = r.out
    /\ raised' = r.raised
    /\ UNCHANGED raceVars

Initialize == Run(Command("initialize"), initialize(table))

GetUser ==
    \E username \in Usernames :
        Run([Command("get_user") EXCEPT !.username = username],
            get_user(table, username))

GetAllUsers == Run(Command("get_all_users"), get_all_users(table))

ChangeEmail ==
    \E username \in Usernames, new_email \in Emails :
        Run([Command("change_email") EXCEPT !.username = username,
                                            !.email = new_email],
            change_email(table, username, new_email))

CreateUser ==
    \E username \in Usernames, email \in Emails, password \in Passwords :
        /\ Len(create_user(table, username, email, password).table) <= MaxRows
        /\ Run([Command("create_user") EXCEPT !.username = username,
                                              !.email = email,
                                              !.password = password],
               create_user(table, username, email, password))

DeleteUser ==
    \E username \in Usernames :
        Run([Command("delete_user") EXCEPT !.username = username],
            delete_user(table, username))

(* Whether the store's LIKE folds case is set where the store is           *)
(* configured, outside this file: either is admitted.                      *)
SearchUsers ==
    \E query \in Queries, folds \in BOOLEAN :
        Run([Command("search_users") EXCEPT !.query = query],
            search_users(table, query, folds))

(* How the store takes a negative LIMIT or OFFSET is the store's own:      *)
(* either is admitted.                                                     *)
ListUsers ==
    \E limit \in Limits, offset \in Offsets :
        \E rejects \in IF limit < 0 \/ offset < 0 THEN BOOLEAN ELSE {FALSE} :
            Run([Command("list_users") EXCEPT !.limit = limit, !.offset = offset],
                list_users(table, limit, offset, rejects))

Procs == {1, 2}

Idle == [p \in Procs |-> "idle"]

NoSession == [open |-> FALSE, staged |-> <<>>, closes |-> 0, rollbacks |-> 0]

(* No concurrent run is in progress. *)
RaceUnused ==
    /\ initial = <<>>
    /\ pc = Idle
    /\ job = [p \in Procs |-> Command("none")]
    /\ sess = [p \in Procs |-> NoSession]
    /\ res = [p \in Procs |-> "none"]

(* The store as the first `initialize` leaves it. *)
Init ==
    /\ table = initialize(<<>>).table
    /\ before = <<>>
    /\ cmd = Command("initialize")
    /\ out = initialize(<<>>).out
    /\ raised = initialize(<<>>).raised
    /\ RaceUnused

Next ==
    \/ Initialize
    \/ GetUser
    \/ GetAllUsers
    \/ ChangeEmail
    \/ CreateUser
    \/ DeleteUser
    \/ SearchUsers
    \/ ListUsers

Spec == Init /\ [][Next]_vars

-----------------------------------------------------------------------------
(* Claims about the commands run one at a time. *)

Holds(t, username) == WhereUsername(t, username) # {}

RowOf(t, username) == t[First(WhereUsername(t, username))]

Others(t, username) == SelectSeq(t, LAMBDA r : r.username # username)

(* C1: in every reachable state no two rows of the user table share a      *)
(* username and no two rows share an email.                                *)
UniqueRows == Unique(table)

UniqueRowsWitness ==
    /\ cmd.name \in {"create_user", "change_email"}
    /\ out.kind = "already taken" \/ raised = "IntegrityError"
    /\ Len(table) = 2

(* C2: create_user with a username or an email that a row already holds    *)
(* prints the "already taken" message, raises nothing and leaves the table *)
(* exactly as it was.                                                      *)
CreateConflictLeavesTable ==
    (/\ cmd.name = "create_user"
     /\ \E i \in 1 .. Len(before) :
            before[i].username = cmd.username \/ before[i].email = cmd.email)
    => /\ out.kind = "already taken"
       /\ raised = "none"
       /\ table = before

CreateConflictWitness ==
    /\ cmd.name = "create_user"
    /\ out.kind = "already taken"
    /\ ~Holds(before, cmd.username)
    /\ \E i \in 1 .. Len(before) :
           before[i].email = cmd.email /\ before[i].password # cmd.password

(* C3 as stated: whenever the user exists, for every new_email,            *)
(* change_email followed by get_user shows the user with the new email and *)
(* the same username and password, and change_email ends only in "updated" *)
(* or "not found".                                                         *)
ChangeEmailAlwaysUpdates ==
    cmd.name = "change_email"
    => /\ raised = "none"
       /\ out.kind \in {"updated", "change_email: not found"}
       /\ Holds(before, cmd.username)
          => get_user(table, cmd.username).out.users
                 = <<[RowOf(before, cmd.username) EXCEPT !.email = cmd.email]>>

EmailFree(t, username, email) ==
    \A i \in 1 .. Len(t) : t[i].email = email => t[i].username = username

ChangeEmailEffect ==
    cmd.name = "change_email"
    => IF ~Holds(before, cmd.username)
       THEN /\ out.kind = "change_email: not found"
            /\ raised = "none"
            /\ table = before
       ELSE IF EmailFree(before, cmd.username, cmd.email)
       THEN /\ out.kind = "updated"
            /\ raised = "none"
            /\ get_user(table, cmd.username).out.users
                   = <<[RowOf(before, cmd.username) EXCEPT !.email = cmd.email]>>
            /\ Others(table, cmd.username) = Others(before, cmd.username)
       ELSE /\ raised = "IntegrityError"
            /\ table = before

ChangeEmailThenGetUser ==
    (/\ cmd.name = "change_email"
     /\ out.kind = "updated"
     /\ cmd'.name = "get_user"
     /\ cmd'.username = cmd.username)
    => /\ raised' = "none"
       /\ out'.kind = "user"
       /\ out'.users
              = <<[RowOf(before, cmd.username) EXCEPT !.email = cmd.email]>>

(* C3, amended: when the user exists and no other row holds new_email,     *)
(* change_email followed by get_user shows the user with the new email and *)
(* the same username and password; when another row holds new_email the    *)
(* uniqueness conflict escapes the command and the table is unchanged;     *)
(* when the user does not exist the command prints "not found".            *)
ChangeEmailUpdatesFreeEmail ==
    []ChangeEmailEffect /\ [][ChangeEmailThenGetUser]_vars

ChangeEmailWitness ==
    /\ cmd.name = "change_email"
    /\ out.kind = "updated"
    /\ Len(table) = 2
    /\ RowOf(before, cmd.username).email # cmd.email
    /\ RowOf(table, cmd.username).email = cmd.email

(* C4: after initialize, whatever the table held, it holds exactly one     *)
(* row: bob, bob@mail.com, bobpass.                                        *)
InitializeLeavesBob ==
    cmd.name = "initialize"
    => /\ table = <<User(bob, bob_mail, bobpass)>>
       /\ raised = "none"

InitializeWitness ==
    /\ cmd.name = "initialize"
    /\ Len(before) = 2
    /\ Holds(before, bob)
    /\ RowOf(before, bob).email # bob_mail
    /\ table = <<User(bob, bob_mail, bobpass)>>

DeleteUserEffect ==
    cmd.name = "delete_user"
    => /\ raised = "none"
       /\ get_user(table, cmd.username).out.kind = "get_user: not found"
       /\ IF Holds(before, cmd.username)
          THEN /\ Len(table) = Len(before) - 1
               /\ table = Others(before, cmd.username)
               /\ out.kind = "deleted"
          ELSE /\ table = before
               /\ out.kind = "delete_user: not found"

DeleteUserThenGetUser ==
    (/\ cmd.name = "delete_user"
     /\ cmd'.name = "get_user"
     /\ cmd'.username = cmd.username)
    => /\ raised' = "none"
       /\ out'.kind = "get_user: not found"
       /\ out'.users = <<>>

(* C5: delete_user followed by get_user of the same username prints "not   *)
(* found"; when the user existed delete_user removes exactly that row and  *)
(* leaves every other row as it was, and when it did not exist the table   *)
(* is unchanged.                                                           *)
DeleteUserRemovesRow ==
    []DeleteUserEffect /\ [][DeleteUserThenGetUser]_vars

DeleteUserWitness ==
    /\ cmd.name = "delete_user"
    /\ out.kind = "deleted"
    /\ Len(before) = 2
    /\ Len(table) = 1

LiteralMatches(t, query) ==
    SelectSeq(t, LAMBDA r : Substring(r.username, query)
                                \/ Substring(r.email, query))

(* C8: search_users returns exactly the users whose username or email      *)
(* contains the query as a literal, case-sensitive substring, and prints   *)
(* "no match" exactly when there is none.                                  *)
SearchIsLiteralSubstring ==
    cmd.name = "search_users"
    => /\ raised = "none"
       /\ out.users = LiteralMatches(before, cmd.query)
       /\ out.kind = "no match" <=> LiteralMatches(before, cmd.query) = <<>>

ReadCommands == {"get_user", "get_all_users", "search_users", "list_users"}

(* C10: get_user of a username that no row holds prints "not found" and    *)
(* raises nothing; get_user, get_all_users, search_users and list_users    *)
(* leave the table as it was.                                              *)
ReadsLeaveTable ==
    /\ (cmd.name = "get_user" /\ ~Holds(before, cmd.username))
       => /\ out.kind = "get_user: not found"
          /\ out.users = <<>>
          /\ raised = "none"
    /\ cmd.name \in ReadCommands => table = before

ReadsWitness ==
    /\ cmd.name = "get_user"
    /\ ~Holds(before, cmd.username)
    /\ Len(before) = 2
    /\ out.kind = "get_user: not found"

-----------------------------------------------------------------------------
(* Paging over a table of seeded users: user i is inserted i-th. *)

Digit == <<"1", "2", "3", "4", "5", "6", "7", "8", "9">>

Seeded(i) == User(<<"u", Digit[i]>>, <<"u", Digit[i], "@", "x", ".", "c", "o", "m">>, pass_p)

Seed ==
    /\ Len(table) < MaxSeed
    /\ LET u == Seeded(Len(table) + 1)
       IN  Run([Command("create_user") EXCEPT !.username = u.username,
                                              !.email = u.email,
                                              !.password = u.password],
               create_user(table, u.username, u.email, u.password))

(* The empty table: the store after initialize and delete_user bob. *)
PageInit ==
    /\ table = delete_user(initialize(<<>>).table, bob).table
    /\ before = initialize(<<>>).table
    /\ cmd = [Command("delete_user") EXCEPT !.username = bob]
    /\ out = delete_user(initialize(<<>>).table, bob).out
    /\ raised = delete_user(initialize(<<>>).table, bob).raised
    /\ RaceUnused

PageNext ==
    \/ Seed
    \/ ListUsers

PageSpec == PageInit /\ [][PageNext]_vars

(* The rows of t at positions offset+1 .. offset+limit, fewer if t ends first. *)
WindowAt(t, limit, offset) ==
    LET S == {i \in 1 .. Len(t) : offset + 1 <= i /\ i <= offset + limit}
        Nth(k) == CHOOSE i \in S : Cardinality({j \in S : j < i}) = k - 1
    IN  [k \in 1 .. Cardinality(S) |-> t[Nth(k)]]

(* C7 as stated: for every limit and offset, list_users returns exactly    *)
(* the rows at positions offset+1 .. offset+limit in insertion order, and  *)
(* prints "no users found" exactly when that window is empty.              *)
ListUsersWindowAnyArguments ==
    cmd.name = "list_users"
    => /\ raised = "none"
       /\ out.users = WindowAt(before, cmd.limit, cmd.offset)
       /\ out.kind = "No users found."
              <=> WindowAt(before, cmd.limit, cmd.offset) = <<>>

(* C7, amended: for limit >= 0 and offset >= 0, list_users returns exactly *)
(* the rows at positions offset+1 .. offset+limit in insertion order       *)
(* (fewer if the table ends first) and prints "no users found" exactly     *)
(* when that window is empty; limit 2, offset 1 on five users returns the  *)
(* 2nd and 3rd.                                                            *)
ListUsersWindow ==
    (cmd.name = "list_users" /\ cmd.limit >= 0 /\ cmd.offset >= 0)
    => /\ raised = "none"
       /\ out.users = WindowAt(before, cmd.limit, cmd.offset)
       /\ out.kind = "No users found."
              <=> WindowAt(before, cmd.limit, cmd.offset) = <<>>
       /\ (Len(before) = 5 /\ cmd.limit = 2 /\ cmd.offset = 1)
              => out.users = <<before[2], before[3]>>

ListUsersWitness ==
    /\ cmd.name = "list_users"
    /\ cmd.limit = 2
    /\ cmd.offset = 1
    /\ before = [i \in 1 .. 5 |-> Seeded(i)]
    /\ out = [kind |-> "page", users |-> <<Seeded(2), Seeded(3)>>]

-----------------------------------------------------------------------------
(* Two processes, each running one command against the same store.  The  *)
(* store serialises statements: a commit is one step.                      *)

RaceUsernames == {bob, name_a}
RaceEmails == {bob_mail, mail_a}

RaceJobs ==
    {[Command("create_user") EXCEPT !.username = u, !.email = e, !.password = w] :
        u \in RaceUsernames, e \in RaceEmails, w \in Passwords}
    \cup
    {[Command("change_email") EXCEPT !.username = u, !.email = e] :
        u \in RaceUsernames, e \in RaceEmails}

(* get_session: acquisition. *)
session_enter(s) == [s EXCEPT !.open = TRUE]

(* db.add *)
session_add(s, row) == [s EXCEPT !.staged = <<row>>]

(* db.rollback *)
session_rollback(s) == [s EXCEPT !.staged = <<>>, !.rollbacks = @ + 1]

(* Mutant: the session is closed only when the block ends without an exception. *)
session_exit_unless_failing(s, failing) ==
    IF failing THEN s
    ELSE LET undone == IF s.staged # <<>> THEN session_rollback(s) ELSE s
         IN  [undone EXCEPT !.open = FALSE, !.closes = @ + 1]

(* get_session: release, on every way out of the block.  What is staged    *)
(* and not committed is rolled back, then the handle is closed.            *)
session_exit(s, failing) ==
    LET undone == IF s.staged # <<>> THEN session_rollback(s) ELSE s
    IN  [undone EXCEPT !.open = FALSE, !.closes = @ + 1]

Goto(p, label) == pc' = [pc EXCEPT ![p] = label]

Enter(p) ==
    /\ pc[p] = "idle"
    /\ \E j \in RaceJobs : job' = [job EXCEPT ![p] = j]
    /\ sess' = [sess EXCEPT ![p] = session_enter(@)]
    /\ Goto(p, "entered")
    /\ UNCHANGED <<table, initial, res, seqVars>>

(* create_user: newuser = User(...); db.add(newuser) *)
CreateAdd(p) ==
    /\ pc[p] = "entered"
    /\ job[p].name = "create_user"
    /\ sess' = [sess EXCEPT ![p] =
                   session_add(@, User(job[p].username, job[p].email, job[p].password))]
    /\ Goto(p, "commit")
    /\ UNCHANGED <<table, initial, job, res, seqVars>>

(* create_user: db.commit() *)
CreateCommit(p) ==
    /\ pc[p] = "commit"
    /\ job[p].name = "create_user"
    /\ LET row == sess[p].staged[1]
       IN  IF InsertConflict(table, row)
           THEN /\ Goto(p, "except")
                /\ UNCHANGED <<table, sess>>
           ELSE /\ table' = Append(table, row)
                /\ sess' = [sess EXCEPT ![p].staged = <<>>]
                /\ Goto(p, "else")
    /\ UNCHANGED <<initial, job, res, seqVars>>

(* Mutant: the IntegrityError is not caught and leaves the block. *)
create_user_except_uncaught(s) ==
    [sess |-> s, res |-> "IntegrityError"]

(* create_user: except IntegrityError: db.rollback(); print(...) *)
create_user_except(s) ==
    [sess |-> session_rollback(s), res |-> "already taken"]

CreateExcept(p) ==
    /\ pc[p] = "except"
    /\ sess' = [sess EXCEPT ![p] = create_user_except(@).sess]
    /\ res' = [res EXCEPT ![p] = create_user_except(sess[p]).res]
    /\ Goto(p, "exit")
    /\ UNCHANGED <<table, initial, job, seqVars>>

(* create_user: else: print(newuser) *)
CreateElse(p) ==
    /\ pc[p] = "else"
    /\ job[p].name = "create_user"
    /\ res' = [res EXCEPT ![p] = "created"]
    /\ Goto(p, "exit")
    /\ UNCHANGED <<table, initial, job, sess, seqVars>>

(* change_email: the lookup, the early return, user.email = new_email;     *)
(* db.add(user).  An email set to the value it was loaded with leaves the  *)
(* object clean: nothing is staged.                                        *)
ChangeSelect(p) ==
    /\ pc[p] = "entered"
    /\ job[p].name = "change_email"
    /\ IF ~Holds(table, job[p].username)
       THEN /\ res' = [res EXCEPT ![p] = "change_email: not found"]
            /\ Goto(p, "exit")
            /\ UNCHANGED sess
       ELSE /\ sess' = [sess EXCEPT ![p] =
                   IF RowOf(table, job[p].username).email = job[p].email
                   THEN @
                   ELSE session_add(@, [RowOf(table, job[p].username)
                                           EXCEPT !.email = job[p].email])]
            /\ Goto(p, "commit")
            /\ UNCHANGED res
    /\ UNCHANGED <<table, initial, job, seqVars>>

(* change_email: db.commit(); the IntegrityError of a taken email leaves the block *)
ChangeCommit(p) ==
    /\ pc[p] = "commit"
    /\ job[p].name = "change_email"
    /\ IF sess[p].staged = <<>>
       THEN /\ Goto(p, "else")
            /\ UNCHANGED <<table, sess, res>>
       ELSE LET user == sess[p].staged[1]
                i == First(WhereUsername(table, user.username))
            IN  IF UpdateConflict(table, i, [table[i] EXCEPT !.email = user.email])
                THEN /\ res' = [res EXCEPT ![p] = "IntegrityError"]
                     /\ Goto(p, "exit")
                     /\ UNCHANGED <<table, sess>>
                ELSE /\ table' = [table EXCEPT ![i].email = user.email]
                     /\ sess' = [sess EXCEPT ![p].staged = <<>>]
                     /\ Goto(p, "else")
                     /\ UNCHANGED res
    /\ UNCHANGED <<initial, job, seqVars>>

(* change_email: print(f"Updated ...") *)
ChangeElse(p) ==
    /\ pc[p] = "else"
    /\ job[p].name = "change_email"
    /\ res' = [res EXCEPT ![p] = "updated"]
    /\ Goto(p, "exit")
    /\ UNCHANGED <<table, initial, job, sess, seqVars>>

(* The end of the with block, by return, by falling off its end or by an exception. *)
Exit(p) ==
    /\ pc[p] = "exit"
    /\ sess' = [sess EXCEPT ![p] = session_exit(@, res[p] = "IntegrityError")]
    /\ Goto(p, "done")
    /\ UNCHANGED <<table, initial, job, res, seqVars>>

Step(p) ==
    \/ Enter(p)
    \/ CreateAdd(p)
    \/ CreateCommit(p)
    \/ CreateExcept(p)
    \/ CreateElse(p)
    \/ ChangeSelect(p)
    \/ ChangeCommit(p)
    \/ ChangeElse(p)
    \/ Exit(p)

RaceInit ==
    /\ table \in {<<>>, initialize(<<>>).table}
    /\ initial = table
    /\ pc = Idle
    /\ job = [p \in Procs |-> Command("none")]
    /\ sess = [p \in Procs |-> NoSession]
    /\ res = [p \in Procs |-> "none"]
    /\ before = <<>>
    /\ cmd = Command("none")
    /\ out = [kind |-> "none", users |-> <<>>]
    /\ raised = "none"

RaceNext == \E p \in Procs : Step(p)

(* A process that has started its command runs it to its end. *)
RaceSpec ==
    RaceInit /\ [][RaceNext]_vars /\ \A p \in Procs : WF_vars(Step(p))

-----------------------------------------------------------------------------
(* Claims about concurrent commands. *)

AllDone == \A p \in Procs : pc[p] = "done"

NewUser(p) == User(job[p].username, job[p].email, job[p].password)

BothCreate == \A p \in Procs : job[p].name = "create_user"

HoldsEmail(t, email) == \E i \in 1 .. Len(t) : t[i].email = email

(* Both calls name the same username, or the same email, and the table     *)
(* they start on does not hold it.                                         *)
SharedAndAbsent ==
    \/ job[1].username = job[2].username /\ ~Holds(initial, job[1].username)
    \/ job[1].email = job[2].email /\ ~HoldsEmail(initial, job[1].email)

(* One process committed its row and the other was told of the conflict    *)
(* and rolled back; the table gained the winner's row and nothing else.    *)
OneWinner ==
    \E w, l \in Procs :
        /\ w # l
        /\ res[w] = "created"
        /\ res[l] = "already taken"
        /\ sess[l].rollbacks >= 1
        /\ table = Append(initial, NewUser(w))

Failed(p) == res[p] \in {"IntegrityError", "already taken"}

SessionClosedOnce ==
    \A p \in Procs :
        /\ sess[p].closes <= 1
        /\ ~sess[p].open => sess[p].staged = <<>>
        /\ pc[p] = "done"
           => /\ ~sess[p].open
              /\ sess[p].closes = 1
              /\ Failed(p) => sess[p].rollbacks >= 1

(* A process that gets a conflict writes nothing, then or later. *)
FailedWritesNothing ==
    \A p \in Procs :
        (pc'[p] # pc[p] /\ (Failed(p) \/ Failed(p)' \/ pc'[p] = "except"))
        => table' = table

SessionEventuallyClosed ==
    \A p \in Procs : sess[p].open ~> ~sess[p].open

(* C9: a command that acquires a session closes it, exactly once, on every *)
(* way out (normal return, the early "not found" return, an uncaught       *)
(* failure), and what a failing command staged is rolled back before the   *)
(* close and never reaches the table.                                      *)
SessionAlwaysReleased ==
    /\ []SessionClosedOnce
    /\ [][FailedWritesNothing]_vars
    /\ SessionEventuallyClosed

SessionWitness ==
    /\ AllDone
    /\ \E p \in Procs :
           /\ job[p].name = "change_email"
           /\ res[p] = "IntegrityError"
           /\ sess[p].rollbacks = 1
    /\ \A p \in Procs : sess[p].closes = 1 /\ ~sess[p].open

-----------------------------------------------------------------------------
====
